---- MODULE Spec2Model ----
(***************************************************************************)
(* Staking ledger (StakingMap) and candidate selection (Candidates) of     *)
(* berith-chain, src/berith/staking/staking_map.go.                        *)
(*                                                                         *)
(* Units.  Stake amounts are big integers in wei.  The model writes them   *)
(* in Gwei (10^9 wei), so that the code's divisor 1e+10 is 10 Gwei and     *)
(* every big.Int division of the code keeps its rounding:                  *)
(*   Div(stake, 1e+10)                  =  stake \div 10                   *)
(*   Div(Mul(stake, adv), 10)           =  stake * adv  (in 10^8 wei)      *)
(*   Div(sum of the latter, 1e+10)      =  sum \div 100                    *)
(* Addresses are small positive integers (byte order = integer order);     *)
(* the zero address is 0.                                                  *)
(***************************************************************************)
EXTENDS Integers, Sequences, FiniteSets, TLC

\* ---------------------------------------------------------------- bounds
\* the chunk size of nextCandidate (the literal 100 of the source), scaled
\* down so that pools of one, two and more chunks are reachable
ChunkSize == 2
\* number of states of the modelled pseudo-random generator
RngMod == 16

\* largest candidate pool of a selection round taken on its own
MaxPool == 4

Addrs == {1, 2, 3}
\* the stakes a stake-change event reports, <<amount in Gwei, height>>;
\* 5 Gwei is below the descaling divisor
Stakes == {<<30, 0>>, <<30, 600000>>, <<5, 600000>>}
\* the amounts a stake-change event reports for an address that has left
Unstakes == {<<0, 0>>, <<-5, 0>>}
\* heights a schedule is asked for
Numbers == {600000, 1200000}
\* epoch period of the chain configuration, in seconds
Periods == {30}
\* arguments of the functions of a round applied on their own: heights on
\* both sides of the saturation point of each period (36000000 / period
\* blocks), two heights with the same low byte, periods, stakes in Gwei
CalcHeights == {0, 599999, 600000, 600256, 1200000, 2400000, 5142857, 5142858}
CalcPeriods == {7, 15, 30, 40}
CalcStakes == {5, 30, 33}

\* ------------------------------------------------------- program constants
DIF_MAX == 500000
DIF_MIN == 10000
defaultDifficulty == 1234
defaultRank == 1

VARIABLES
  storage,     \* StakingMap.storage: address -> stkInfo
  sortedList,  \* StakingMap.sortedList
  miners,      \* StakingMap.miners
  table,       \* StakingMap.table: address -> VoteResult
  NEXT,        \* package variable NEXT (chunk offset)
  rng,         \* state of the process-wide math/rand generator
  period,      \* epoch period handed to NewCandidates
  fault,       \* "none", or how the process stopped: "panic" / "hang"
  last,        \* the last call and what it returned
  hist,        \* history: addresses unstaked by SetInfo, the round behind table
  rs,          \* a selection round in progress, taken one iteration at a time
  calc,        \* a function of the round applied on its own: arguments, results
  rs2,         \* a second selection round in progress in the same process
  twin         \* the StakingMap that Copy returned: its own fields

ledgerVars == <<storage, sortedList, miners, table, rng, fault, last, hist>>
vars == <<storage, sortedList, miners, table, NEXT, rng, period, fault, last, hist, rs, calc, rs2, twin>>

\* ----------------------------------------------------------------- helpers
Range(s) == {s[i] : i \in 1..Len(s)}

EmptyMap == [x \in {} |-> 0]

\* big.Int / int64 conversions truncate toward zero
Trunc(a, b) == IF a >= 0 THEN a \div b ELSE -((-a) \div b)

\* ------------------------------------------------------------ StakingMap
stkInfo(a, v, b) == [StkAddress |-> a, StkValue |-> v, StkBlockNumber |-> b]

\* Less with the address tie-break the other way round
LessAddressAscending(x, y) ==
  IF x.StkValue = y.StkValue
    THEN IF x.StkBlockNumber = y.StkBlockNumber
           THEN x.StkAddress < y.StkAddress
           ELSE x.StkBlockNumber < y.StkBlockNumber
    ELSE x.StkValue > y.StkValue

\* infoForSort.Less
Less(x, y) ==
  IF x.StkValue = y.StkValue
    THEN IF x.StkBlockNumber = y.StkBlockNumber
           THEN x.StkAddress > y.StkAddress
           ELSE x.StkBlockNumber < y.StkBlockNumber
    ELSE x.StkValue > y.StkValue

\* sort.Sort(&kv): Less is a strict total order on entries with distinct
\* addresses, so the sorted sequence is unique
RECURSIVE SortInfos(_)
SortInfos(kv) ==
  IF kv = {} THEN <<>>
  ELSE LET first == CHOOSE x \in kv : \A y \in kv \ {x} : Less(x, y)
       IN  <<first>> \o SortInfos(kv \ {first})

\* the list Sort computes from the storage
SortedOf(stg) ==
  LET kv == {stg[a] : a \in {x \in DOMAIN stg : stg[x].StkValue > 0}}
      s  == SortInfos(kv)
  IN  [i \in 1..Len(s) |-> s[i].StkAddress]

\* StakingMap.Sort: the list after the call
SortResult(stg, sl) == IF Len(sl) > 0 THEN sl ELSE SortedOf(stg)

\* --------------------------------------------------------------- Candidate
Candidate(a, s, b) == [address |-> a, stake |-> s, block |-> b]

\* GetAdvantage without the cap at 1
GetAdvantageUncapped(c, number, per) ==
  [num |-> (number - c.block) * per, den |-> 36000000]

\* Candidate.GetAdvantage as an exact fraction num/den:
\* (number - block) / (1.2 * (30/period) * 10^6), capped at 1
GetAdvantage(c, number, per) ==
  LET num == (number - c.block) * per
      den == 36000000
  IN  IF num >= den THEN [num |-> 1, den |-> 1] ELSE [num |-> num, den |-> den]

\* int64(c.GetAdvantage(cs.number, cs.period)*10) + 10
AdvMultiplier(c, number, per) ==
  LET adv == GetAdvantage(c, number, per)
  IN  Trunc(10 * adv.num, adv.den) + 10

RECURSIVE SumAdvStake(_, _, _)
SumAdvStake(sel, number, per) ==
  IF Len(sel) = 0 THEN 0
  ELSE sel[1].stake * AdvMultiplier(sel[1], number, per)
         + SumAdvStake(Tail(sel), number, per)

\* Candidates.TotalStakeBalance
TotalStakeBalance(sel, number, per) == Trunc(SumAdvStake(sel, number, per), 100)

\* new(big.Int).Div(s.stake, big.NewInt(1e+10))
Descale(stake) == Trunc(stake, 10)

\* sha256 of one byte, read as int64: a fixed mixing of the byte
Sha256Byte(b) == (167 * b + 41) % 256

\* bt := []byte{byte(number)}: the bytes given to the hash
SeedBytes(number) == <<number % 256>>

\* Candidates.GetSeed: only byte(number) is hashed
GetSeed(number) == Sha256Byte(SeedBytes(number)[1])

\* rand.Seed
RandSeed(seed) == seed % RngMod

\* one step of the generator
RngNext(x) == (5 * x + 3) % RngMod

\* rand.Int63n(n) read off the generator state x reached by the draw
Int63n(x, n) == x % n

\* nextCandidate: cs.selections[idx:] panics when idx > len
nextCandidate(sel, idx) ==
  IF idx > Len(sel) THEN [err |-> "panic", cp |-> <<>>]
  ELSE IF Len(sel) - idx = 0 THEN [err |-> "SIZE ZERO", cp |-> <<>>]
  ELSE IF Len(sel) - idx < ChunkSize
         THEN [err |-> "nil", cp |-> SubSeq(sel, idx + 1, Len(sel))]
         ELSE [err |-> "nil", cp |-> SubSeq(sel, idx + 1, idx + ChunkSize)]

\* selector: index (1-based) of the first candidate at which the running
\* value is <= value, 0 for errors.New("empty SRT")
RECURSIVE selectorFrom(_, _, _, _)
selectorFrom(cp, temp, value, i) ==
  IF i > Len(cp) THEN 0
  ELSE LET t == temp - Descale(cp[i].stake)
       IN  IF t > value THEN selectorFrom(cp, t, value, i + 1) ELSE i

selector(cp, total, value) == selectorFrom(cp, total, value, 1)

\* removeSlice with t2 := cs[i:], which drops nothing
removeSliceNone(cs, i) == cs

\* removeSlice
removeSlice(cs, i) ==
  [j \in 1..(Len(cs) - 1) |-> IF j < i THEN cs[j] ELSE cs[j + 1]]

\* DIF_R divided by the length of the first chunk (cp) instead of the pool
DIF_R_PerChunk(sel) ==
  (DIF_MAX - DIF_MIN) \div (IF Len(sel) < ChunkSize THEN Len(sel) ELSE ChunkSize)

\* DIF_R := (DIF_MAX - DIF_MIN) / int64(len(cs.selections))
DIF_R(sel) == (DIF_MAX - DIF_MIN) \div Len(sel)

\* the state of one call of GetBlockCreator before it starts
IdleRound ==
  [sel |-> <<>>, number |-> 0, period |-> 0, cp |-> <<>>, total |-> 0,
   DIF |-> DIF_MAX, DIF_R |-> 0, bc |-> EmptyMap, order |-> <<>>,
   next0 |-> 0, NEXT |-> 0, rng |-> 0, status |-> "idle"]

\* GetBlockCreator up to its for-loop: the first chunk, DIF, DIF_R, the seed
\* and the first total
BeginRound(sel, number, per, next0, rng0) ==
  LET nc  == nextCandidate(sel, next0)
      st0 == [IdleRound EXCEPT !.sel = sel, !.number = number, !.period = per,
                               !.next0 = next0, !.NEXT = next0, !.rng = rng0]
  IN  IF nc.err = "panic" THEN [st0 EXCEPT !.status = "panic"]
      ELSE IF nc.err # "nil" THEN [st0 EXCEPT !.status = "done"]
      ELSE [st0 EXCEPT !.status = "run",
                       !.cp    = nc.cp,
                       !.DIF_R = DIF_R(sel),
                       !.rng   = RandSeed(GetSeed(number)),
                       !.total = TotalStakeBalance(nc.cp, number, per)]

\* the head of one iteration of the for-loop: the next chunk when the
\* current one is empty, then the test of total
Advance(st) ==
  LET a == IF Len(st.cp) = 0
             THEN LET n  == st.NEXT + ChunkSize
                      nc == nextCandidate(st.sel, n)
                  IN  IF nc.err = "panic"
                        THEN [st EXCEPT !.NEXT = n, !.status = "panic"]
                      ELSE IF nc.err # "nil"
                        THEN [st EXCEPT !.NEXT = n, !.status = "done"]
                      ELSE [st EXCEPT !.NEXT = n, !.cp = nc.cp,
                              !.total = TotalStakeBalance(nc.cp, st.number, st.period)]
             ELSE st
  IN  IF a.status # "run" THEN a
      ELSE IF a.total = 0 THEN [a EXCEPT !.status = "done"]
      \* rand.Int63n panics for n <= 0
      ELSE IF a.total < 0 THEN [a EXCEPT !.status = "panic"]
      ELSE a

\* loop(value) on the round state st
loop(st, value) ==
  LET key == selector(st.cp, st.total, value)
  IN  IF key = 0 THEN st
      ELSE LET addr == st.cp[key].address
           IN  [st EXCEPT
                 !.bc    = [a \in (DOMAIN st.bc) \cup {addr} |->
                              IF a = addr THEN st.DIF ELSE st.bc[a]],
                 !.order = Append(st.order, [address |-> addr, difficulty |-> st.DIF]),
                 !.DIF   = st.DIF - st.DIF_R,
                 !.total = st.total - Descale(st.cp[key].stake),
                 !.cp    = removeSlice(st.cp, key)]

\* the generator state of the first of the next RngMod draws that selects a
\* candidate, -1 when none does (the generator has then gone round its
\* cycle and the loop never ends)
RECURSIVE FirstHit(_, _, _)
FirstHit(st, x, j) ==
  IF j > RngMod THEN -1
  ELSE LET y == RngNext(x)
       IN  IF selector(st.cp, st.total, Int63n(y, st.total)) # 0 THEN y
           ELSE FirstHit(st, y, j + 1)

\* the for-loop of GetBlockCreator to its end.  A draw for which selector
\* fails changes nothing but the generator.
RECURSIVE MainLoop(_)
MainLoop(st) ==
  LET a == Advance(st)
  IN  IF a.status # "run" THEN a
      ELSE LET y == FirstHit(a, a.rng, 1)
           IN  IF y < 0 THEN [a EXCEPT !.status = "hang"]
               ELSE MainLoop(loop([a EXCEPT !.rng = y], Int63n(y, a.total)))

\* Candidates.GetBlockCreator, with the package variable NEXT and the
\* generator state it starts from; returns the round state at its end
GetBlockCreator(sel, number, per, next0, rng0) ==
  LET b == BeginRound(sel, number, per, next0, rng0)
  IN  IF b.status = "run" THEN MainLoop(b) ELSE b

\* ------------------------------------------------------ ledger operations
VoteResult(score, rank) == [Score |-> score, Rank |-> rank]

\* the candidate selectSigner adds for addr: the storage's entry copied
\* into a Candidate (address, stake, block)
MakeCandidate(stg, addr) ==
  Candidate(stg[addr].StkAddress, stg[addr].StkValue, stg[addr].StkBlockNumber)

\* Candidates.BlockCreator: the round's difficulties with the rank of each
\* address, the 0-based position in assignment order
BlockCreator(r) ==
  [a \in DOMAIN r.bc |->
     VoteResult(r.bc[a],
                (CHOOSE i \in 1..Len(r.order) : r.order[i].address = a) - 1)]

Call(op, addr, number) ==
  [op |-> op, addr |-> addr, number |-> number, score |-> 0, rank |-> 0,
   reordered |-> FALSE, ran |-> FALSE, returned |-> TRUE]

\* StakingMap.selectSigner: the ledger and the globals after the call;
\* ran tells whether GetBlockCreator was called
selectSigner(stg, sl, tbl, next, x, number, per) ==
  LET sl1  == SortResult(stg, sl)
      same == [sortedList |-> sl1, table |-> tbl, NEXT |-> next, rng |-> x,
               status |-> "done", ran |-> FALSE]
  IN  IF Len(sl1) <= 0 THEN same
      ELSE IF \E i \in 1..Len(sl1) : sl1[i] \notin DOMAIN stg
        \* list.storage[addr] is the zero stkInfo: its nil amounts fault
        THEN [same EXCEPT !.status = "panic"]
      ELSE LET cs == [i \in 1..Len(sl1) |-> MakeCandidate(stg, sl1[i])]
               r  == GetBlockCreator(cs, number, per, next, x)
           IN  [sortedList |-> sl1,
                table |-> IF r.status = "done" THEN BlockCreator(r) ELSE tbl,
                NEXT |-> r.NEXT, rng |-> r.rng, status |-> r.status,
                ran |-> TRUE]

\* Copy has not been called
NoTwin == [live |-> FALSE, sortedList |-> <<>>, table |-> EmptyMap]

\* no function has been applied on its own
IdleCalc ==
  [op |-> "idle", stake |-> 0, block |-> 0, number |-> 0, number2 |-> 0,
   period |-> 0, adv |-> [num |-> 0, den |-> 1], mult |-> 0, sum |-> 0,
   bytes |-> <<>>, bytes2 |-> <<>>, seed |-> 0, seed2 |-> 0]

Init ==
  /\ storage = EmptyMap
  /\ sortedList = <<>>
  /\ miners = EmptyMap
  /\ table = EmptyMap
  /\ NEXT = 0
  /\ rng = RandSeed(1)
  /\ period \in Periods
  /\ fault = "none"
  /\ last = Call("New", 0, 0)
  /\ hist = [pending |-> {}, flushed |-> {}, number |-> 0, next0 |-> 0]
  /\ rs = IdleRound
  /\ calc = IdleCalc
  /\ rs2 = IdleRound
  /\ twin = NoTwin

\* SetInfo that deletes for amounts below zero only
SetInfoKeepsZero(a, v, b) ==
  /\ fault = "none"
  /\ storage' = IF v < 0
                  THEN [x \in (DOMAIN storage) \ {a} |-> storage[x]]
                  ELSE [x \in (DOMAIN storage) \cup {a} |->
                          IF x = a THEN stkInfo(a, v, b) ELSE storage[x]]
  /\ last' = Call("SetInfo", 0, 0)
  /\ hist' = IF v >= 1
               THEN [hist EXCEPT !.pending = @ \ {a}, !.flushed = @ \ {a}]
             ELSE IF a \in DOMAIN storage
               THEN [hist EXCEPT !.pending = @ \cup {a}, !.flushed = @ \ {a}]
             ELSE hist
  /\ UNCHANGED <<sortedList, miners, table, NEXT, rng, period, fault, rs, calc, rs2, twin>>

\* StakingMap.SetInfo
SetInfo(a, v, b) ==
  /\ fault = "none"
  /\ storage' = IF v < 1
                  THEN [x \in (DOMAIN storage) \ {a} |-> storage[x]]
                  ELSE [x \in (DOMAIN storage) \cup {a} |->
                          IF x = a THEN stkInfo(a, v, b) ELSE storage[x]]
  /\ last' = Call("SetInfo", 0, 0)
  /\ hist' = IF v >= 1
               THEN [hist EXCEPT !.pending = @ \ {a}, !.flushed = @ \ {a}]
             ELSE IF a \in DOMAIN storage
               THEN [hist EXCEPT !.pending = @ \cup {a}, !.flushed = @ \ {a}]
             ELSE hist
  /\ UNCHANGED <<sortedList, miners, table, NEXT, rng, period, fault, rs, calc, rs2, twin>>

\* StakingMap.Delete
Delete(a) ==
  /\ fault = "none"
  /\ storage' = [x \in (DOMAIN storage) \ {a} |-> storage[x]]
  /\ last' = Call("Delete", 0, 0)
  /\ UNCHANGED <<sortedList, miners, table, NEXT, rng, period, fault, hist, rs, calc, rs2, twin>>

\* StakingMap.Sort, and ToArray for its result
Sort ==
  /\ fault = "none"
  /\ sortedList' = SortResult(storage, sortedList)
  /\ last' = Call("Sort", 0, 0)
  /\ UNCHANGED <<storage, miners, table, NEXT, rng, period, fault, hist, rs, calc, rs2, twin>>

\* ClearTable that clears the table and leaves sortedList
ClearTableKeepsList ==
  /\ fault = "none"
  /\ table' = EmptyMap
  /\ last' = Call("ClearTable", 0, 0)
  /\ hist' = [hist EXCEPT !.pending = {}, !.flushed = @ \cup hist.pending]
  /\ UNCHANGED <<storage, sortedList, miners, NEXT, rng, period, fault, rs, calc, rs2, twin>>

\* StakingMap.ClearTable
ClearTable ==
  /\ fault = "none"
  /\ sortedList' = <<>>
  /\ table' = EmptyMap
  /\ last' = Call("ClearTable", 0, 0)
  /\ hist' = [hist EXCEPT !.pending = {}, !.flushed = @ \cup hist.pending]
  /\ UNCHANGED <<storage, miners, NEXT, rng, period, fault, rs, calc, rs2, twin>>

\* the first test len(list.table) <= 0 taken as always true
NeedsSelectAlways(tbl) == TRUE

\* the first test len(list.table) <= 0: the round has to be run
NeedsSelect(tbl) == Cardinality(DOMAIN tbl) <= 0

\* the second test len(list.table) <= 0: the default is returned
TableEmpty(tbl) == Cardinality(DOMAIN tbl) <= 0

\* Answer with the test of ok inverted
AnswerNotOk(c, tbl, addr, reordered) ==
  IF TableEmpty(tbl)
    THEN [c EXCEPT !.score = defaultDifficulty, !.rank = defaultRank,
                   !.reordered = FALSE]
  ELSE IF addr \notin DOMAIN tbl
    THEN [c EXCEPT !.score = 0, !.rank = 0, !.reordered = reordered]
  ELSE [c EXCEPT !.score = 0, !.rank = -1, !.reordered = reordered]

\* Answer whose default carries the reordered flag
AnswerDefaultReordered(c, tbl, addr, reordered) ==
  IF TableEmpty(tbl)
    THEN [c EXCEPT !.score = defaultDifficulty, !.rank = defaultRank,
                   !.reordered = reordered]
  ELSE IF addr \in DOMAIN tbl
    THEN [c EXCEPT !.score = tbl[addr].Score, !.rank = tbl[addr].Rank,
                   !.reordered = reordered]
  ELSE [c EXCEPT !.score = 0, !.rank = -1, !.reordered = reordered]

\* Answer with the zero VoteResult for an address the table lacks
AnswerAbsentZero(c, tbl, addr, reordered) ==
  IF TableEmpty(tbl)
    THEN [c EXCEPT !.score = defaultDifficulty, !.rank = defaultRank,
                   !.reordered = FALSE]
  ELSE IF addr \in DOMAIN tbl
    THEN [c EXCEPT !.score = tbl[addr].Score, !.rank = tbl[addr].Rank,
                   !.reordered = reordered]
  ELSE [c EXCEPT !.score = 0, !.rank = 0, !.reordered = reordered]

\* what GetDifficultyAndRank returns from the table tbl
Answer(c, tbl, addr, reordered) ==
  IF TableEmpty(tbl)
    THEN [c EXCEPT !.score = defaultDifficulty, !.rank = defaultRank,
                   !.reordered = FALSE]
  ELSE IF addr \in DOMAIN tbl
    THEN [c EXCEPT !.score = tbl[addr].Score, !.rank = tbl[addr].Rank,
                   !.reordered = reordered]
  ELSE [c EXCEPT !.score = 0, !.rank = -1, !.reordered = reordered]

\* StakingMap.GetDifficultyAndRank
GetDifficultyAndRank(addr, number) ==
  /\ fault = "none"
  /\ LET reordered == NeedsSelect(table)
     IN  \E s \in {IF reordered
                     THEN selectSigner(storage, sortedList, table, NEXT, rng, number, period)
                     ELSE [sortedList |-> sortedList, table |-> table, NEXT |-> NEXT,
                           rng |-> rng, status |-> "done", ran |-> FALSE]} :
           /\ sortedList' = s.sortedList
           /\ table' = s.table
           /\ NEXT' = s.NEXT
           /\ rng' = s.rng
           /\ fault' = IF s.status = "done" THEN "none" ELSE s.status
           /\ last' =
                LET c == [Call("GetDifficultyAndRank", addr, number) EXCEPT !.ran = s.ran]
                IN  IF s.status # "done" THEN [c EXCEPT !.returned = FALSE]
                    ELSE Answer(c, s.table, addr, reordered)
           /\ hist' = IF s.ran
                        THEN [hist EXCEPT !.number = number, !.next0 = NEXT]
                        ELSE hist
  /\ UNCHANGED <<storage, miners, period, rs, calc, rs2, twin>>

\* ------------------------------------------------------------------ codec
\* json.Marshal of a map: the pairs <<key, value>> in key order
RECURSIVE MarshalMap(_)
MarshalMap(m) ==
  IF DOMAIN m = {} THEN <<>>
  ELSE LET k == CHOOSE x \in DOMAIN m : \A y \in DOMAIN m : x <= y
       IN  <<<<k, m[k]>>>> \o MarshalMap([x \in (DOMAIN m) \ {k} |-> m[x]])

\* json.Unmarshal into a map
UnmarshalMap(s) ==
  [k \in {s[i][1] : i \in 1..Len(s)} |->
     (s[CHOOSE i \in 1..Len(s) : s[i][1] = k])[2]]

\* StakingMap.EncodeRLP: four segments in the order storage, miners, table,
\* sortedList
EncodeRLP(l) ==
  <<MarshalMap(l.storage), MarshalMap(l.miners), MarshalMap(l.table), l.sortedList>>

\* Decode that leaves the table of the new ledger empty
DecodeFreshTable(rlpData) ==
  IF Len(rlpData) # 4 THEN [err |-> "rlp", list |-> <<>>]
  ELSE [err |-> "nil",
        list |-> [storage |-> UnmarshalMap(rlpData[1]),
                  miners |-> UnmarshalMap(rlpData[2]),
                  table |-> EmptyMap,
                  sortedList |-> rlpData[4]]]

\* Decode that hands back an invalidated ledger: no table, no sortedList
DecodeInvalidated(rlpData) ==
  IF Len(rlpData) # 4 THEN [err |-> "rlp", list |-> <<>>]
  ELSE [err |-> "nil",
        list |-> [storage |-> UnmarshalMap(rlpData[1]),
                  miners |-> UnmarshalMap(rlpData[2]),
                  table |-> EmptyMap,
                  sortedList |-> <<>>]]

\* Decode
Decode(rlpData) ==
  IF Len(rlpData) # 4 THEN [err |-> "rlp", list |-> <<>>]
  ELSE [err |-> "nil",
        list |-> [storage |-> UnmarshalMap(rlpData[1]),
                  miners |-> UnmarshalMap(rlpData[2]),
                  table |-> UnmarshalMap(rlpData[3]),
                  sortedList |-> rlpData[4]]]

Ledger == [storage |-> storage, miners |-> miners, table |-> table,
           sortedList |-> sortedList]

\* the ledger is persisted and loaded again: Decode(Encode(list))
Reload ==
  /\ fault = "none"
  /\ LET d == Decode(EncodeRLP(Ledger))
     IN  /\ d.err = "nil"
         /\ storage' = d.list.storage
         /\ miners' = d.list.miners
         /\ table' = d.list.table
         /\ sortedList' = d.list.sortedList
  /\ last' = Call("Decode", 0, 0)
  /\ UNCHANGED <<NEXT, rng, period, fault, hist, rs, calc, rs2, twin>>

Next ==
  \/ \E a \in Addrs, e \in Stakes \cup Unstakes : SetInfo(a, e[1], e[2])
  \/ \E a \in Addrs : Delete(a)
  \/ Sort
  \/ ClearTable
  \/ \E a \in Addrs, n \in Numbers : GetDifficultyAndRank(a, n)
  \/ Reload

Spec == Init /\ [][Next]_vars

\* ------------------------------------------- one selection round, stepwise
\* The pools selectSigner can hand to GetBlockCreator: the entries of a
\* storage in Sort's order
PoolAddrs == 1..MaxPool

PoolOf(stg) ==
  LET sl == SortedOf(stg) IN [i \in 1..Len(sl) |-> MakeCandidate(stg, sl[i])]

Pools ==
  UNION {{PoolOf([a \in A |-> stkInfo(a, f[a][1], f[a][2])]) : f \in [A -> Stakes]} :
           A \in (SUBSET PoolAddrs) \ {{}}}

RoundInit ==
  /\ Init
  /\ rs = IdleRound

\* GetBlockCreator is entered, with the package variable NEXT as it is
RoundBegin(pool, number) ==
  /\ rs.status = "idle"
  /\ rs' = BeginRound(pool, number, period, NEXT, 0)
  /\ NEXT' = rs'.NEXT
  /\ UNCHANGED <<ledgerVars, period, calc, rs2, twin>>

\* one iteration of the for-loop; the draw is any value of [0, total)
RoundIterate ==
  /\ rs.status = "run"
  /\ \E a \in {Advance(rs)} :
       IF a.status # "run" THEN rs' = a
       ELSE \E value \in 0..(a.total - 1) : rs' = loop(a, value)
  /\ NEXT' = rs'.NEXT
  /\ UNCHANGED <<ledgerVars, period, calc, rs2, twin>>

\* GetBlockCreator returns: its locals are gone, NEXT stays as it was left
RoundReturn ==
  /\ rs.status = "done"
  /\ rs' = IdleRound
  /\ UNCHANGED <<ledgerVars, NEXT, period, calc, rs2, twin>>

RoundNext ==
  \/ \E pool \in Pools, n \in Numbers : RoundBegin(pool, n)
  \/ RoundIterate
  \/ RoundReturn

RoundSpec == RoundInit /\ [][RoundNext]_vars

\* the same rounds in a process that keeps running: the for-loop of
\* GetBlockCreator has no blocking call, so its next iteration is taken
RoundFairSpec == RoundSpec /\ WF_vars(RoundIterate)

\* ------------------------------------ two rounds of one process, interleaved
\* Two goroutines call GetBlockCreator on pools of their own; NEXT and the
\* math/rand generator are the process's.  The rounds are interleaved by
\* whole iterations of the for-loop.
\* the addresses of the pool of round i
PairAddrs(i) == ((i - 1) * ChunkSize + 1)..(i * ChunkSize)

\* the stakes of the candidates, <<amount in Gwei, height>>
PairStakes == {<<30, 0>>, <<30, 600000>>}

\* the pools of round i: exactly one chunk
PairPools(i) ==
  {PoolOf([a \in PairAddrs(i) |-> stkInfo(a, f[a][1], f[a][2])]) :
     f \in [PairAddrs(i) -> PairStakes]}

PairInit == Init

\* round i enters GetBlockCreator: it reads NEXT and seeds the generator
PairBegin(i, pool, number) ==
  /\ (IF i = 1 THEN rs ELSE rs2).status = "idle"
  /\ \E b \in {BeginRound(pool, number, period, NEXT, rng)} :
       /\ rs' = IF i = 1 THEN b ELSE rs
       /\ rs2' = IF i = 2 THEN b ELSE rs2
       /\ rng' = b.rng
  /\ UNCHANGED <<storage, sortedList, miners, table, NEXT, period, fault, last,
                 hist, calc, twin>>

\* round i takes one iteration of its for-loop, on the process's NEXT and
\* generator
PairIterate(i) ==
  /\ (IF i = 1 THEN rs ELSE rs2).status = "run"
  /\ LET r == IF i = 1 THEN rs ELSE rs2
         a == Advance([r EXCEPT !.NEXT = NEXT, !.rng = rng])
         y == RngNext(a.rng)
     IN  \E n \in {IF a.status # "run" THEN a
                    ELSE loop([a EXCEPT !.rng = y], Int63n(y, a.total))} :
           /\ rs' = IF i = 1 THEN n ELSE rs
           /\ rs2' = IF i = 2 THEN n ELSE rs2
           /\ NEXT' = n.NEXT
           /\ rng' = n.rng
  /\ UNCHANGED <<storage, sortedList, miners, table, period, fault, last, hist,
                 calc, twin>>

PairNext ==
  \/ \E i \in {1, 2} : \E pool \in PairPools(i), n \in Numbers : PairBegin(i, pool, n)
  \/ \E i \in {1, 2} : PairIterate(i)

PairSpec == PairInit /\ [][PairNext]_vars

\* ------------------------------------------------ a ledger and its Copy
\* Copy builds a new StakingMap from the fields of the receiver.  A Go map
\* field holds a reference, so the copy's storage is the map of the
\* original, which SetInfo and Delete write in place; sortedList and table
\* are only ever replaced as a whole (Sort, ClearTable, selectSigner), so
\* the copy has values of its own for them from the first replacement on.
CopyAddrs == {1, 2}
CopyStakes == {<<30, 0>>, <<30, 600000>>, <<0, 0>>}
CopyNumbers == {600000}

\* c := l.Copy()
Copy ==
  /\ fault = "none"
  /\ ~twin.live
  /\ twin' = [live |-> TRUE, sortedList |-> sortedList, table |-> table]
  /\ last' = Call("Copy", 0, 0)
  /\ UNCHANGED <<storage, sortedList, miners, table, NEXT, rng, period, fault,
                 hist, rs, calc, rs2>>

\* c.SetInfo
CopySetInfo(a, v, b) ==
  /\ fault = "none"
  /\ twin.live
  /\ storage' = IF v < 1
                  THEN [x \in (DOMAIN storage) \ {a} |-> storage[x]]
                  ELSE [x \in (DOMAIN storage) \cup {a} |->
                          IF x = a THEN stkInfo(a, v, b) ELSE storage[x]]
  /\ last' = Call("c.SetInfo", 0, 0)
  /\ UNCHANGED <<sortedList, miners, table, NEXT, rng, period, fault, hist, rs,
                 calc, rs2, twin>>

\* c.Delete
CopyDelete(a) ==
  /\ fault = "none"
  /\ twin.live
  /\ storage' = [x \in (DOMAIN storage) \ {a} |-> storage[x]]
  /\ last' = Call("c.Delete", 0, 0)
  /\ UNCHANGED <<sortedList, miners, table, NEXT, rng, period, fault, hist, rs,
                 calc, rs2, twin>>

\* c.Sort
CopySort ==
  /\ fault = "none"
  /\ twin.live
  /\ twin' = [twin EXCEPT !.sortedList = SortResult(storage, twin.sortedList)]
  /\ last' = Call("c.Sort", 0, 0)
  /\ UNCHANGED <<storage, sortedList, miners, table, NEXT, rng, period, fault,
                 hist, rs, calc, rs2>>

\* c.ClearTable
CopyClearTable ==
  /\ fault = "none"
  /\ twin.live
  /\ twin' = [twin EXCEPT !.sortedList = <<>>, !.table = EmptyMap]
  /\ last' = Call("c.ClearTable", 0, 0)
  /\ UNCHANGED <<storage, sortedList, miners, table, NEXT, rng, period, fault,
                 hist, rs, calc, rs2>>

\* c.GetDifficultyAndRank
CopyGetDifficultyAndRank(addr, number) ==
  /\ fault = "none"
  /\ twin.live
  /\ LET reordered == NeedsSelect(twin.table)
     IN  \E s \in {IF reordered
                     THEN selectSigner(storage, twin.sortedList, twin.table, NEXT,
                                       rng, number, period)
                     ELSE [sortedList |-> twin.sortedList, table |-> twin.table,
                           NEXT |-> NEXT, rng |-> rng, status |-> "done",
                           ran |-> FALSE]} :
           /\ twin' = [twin EXCEPT !.sortedList = s.sortedList, !.table = s.table]
           /\ NEXT' = s.NEXT
           /\ rng' = s.rng
           /\ fault' = IF s.status = "done" THEN "none" ELSE s.status
           /\ last' =
                LET c == [Call("c.GetDifficultyAndRank", addr, number) EXCEPT !.ran = s.ran]
                IN  IF s.status # "done" THEN [c EXCEPT !.returned = FALSE]
                    ELSE Answer(c, s.table, addr, reordered)
  /\ UNCHANGED <<storage, sortedList, miners, table, period, hist, rs, calc, rs2>>

CopyInit == Init

CopyNext ==
  \/ Copy
  \/ \E a \in CopyAddrs, e \in CopyStakes : SetInfo(a, e[1], e[2])
  \/ \E a \in CopyAddrs : Delete(a)
  \/ Sort
  \/ ClearTable
  \/ \E a \in CopyAddrs, n \in CopyNumbers : GetDifficultyAndRank(a, n)
  \/ \E a \in CopyAddrs, e \in CopyStakes : CopySetInfo(a, e[1], e[2])
  \/ \E a \in CopyAddrs : CopyDelete(a)
  \/ CopySort
  \/ CopyClearTable
  \/ \E a \in CopyAddrs, n \in CopyNumbers : CopyGetDifficultyAndRank(a, n)

CopySpec == CopyInit /\ [][CopyNext]_vars

\* ------------------------------------- the functions of a round on their own
CalcInit ==
  /\ storage = EmptyMap
  /\ sortedList = <<>>
  /\ miners = EmptyMap
  /\ table = EmptyMap
  /\ NEXT = 0
  /\ rng = RandSeed(1)
  /\ period \in Periods
  /\ fault = "none"
  /\ last = Call("New", 0, 0)
  /\ hist = [pending |-> {}, flushed |-> {}, number |-> 0, next0 |-> 0]
  /\ rs = IdleRound
  /\ rs2 = IdleRound
  /\ twin = NoTwin
  /\ \E s \in CalcStakes, b \in CalcHeights, n \in CalcHeights,
        n2 \in CalcHeights, p \in CalcPeriods :
       calc = [IdleCalc EXCEPT !.op = "args", !.stake = s, !.block = b,
                               !.number = n, !.number2 = n2, !.period = p]

\* c.GetAdvantage(number, period)
CalcAdvantage ==
  /\ calc.op = "args"
  /\ calc' = [calc EXCEPT !.op = "GetAdvantage",
                 !.adv = GetAdvantage(Candidate(1, calc.stake, calc.block),
                                      calc.number, calc.period)]
  /\ UNCHANGED <<ledgerVars, NEXT, period, rs, rs2, twin>>

\* TotalStakeBalance of the pool of one candidate: its multiplier and its
\* weighted stake before the final division
CalcTotal ==
  /\ calc.op = "args"
  /\ LET c == Candidate(1, calc.stake, calc.block)
     IN  calc' = [calc EXCEPT !.op = "TotalStakeBalance",
                    !.mult = AdvMultiplier(c, calc.number, calc.period),
                    !.sum = SumAdvStake(<<c>>, calc.number, calc.period)]
  /\ UNCHANGED <<ledgerVars, NEXT, period, rs, rs2, twin>>

\* GetSeed for two heights
CalcSeed ==
  /\ calc.op = "args"
  /\ calc' = [calc EXCEPT !.op = "GetSeed",
                 !.bytes = SeedBytes(calc.number),
                 !.bytes2 = SeedBytes(calc.number2),
                 !.seed = GetSeed(calc.number),
                 !.seed2 = GetSeed(calc.number2)]
  /\ UNCHANGED <<ledgerVars, NEXT, period, rs, rs2, twin>>

CalcNext ==
  \/ CalcAdvantage
  \/ CalcTotal
  \/ CalcSeed

CalcSpec == CalcInit /\ [][CalcNext]_vars

\* ------------------------------------------------------------- properties
IsCall == last.op = "GetDifficultyAndRank"

\* the pool selectSigner builds from the ledger as it is
CurrentPool == [i \in 1..Len(sortedList) |-> MakeCandidate(storage, sortedList[i])]

\* how the process stands after a round that ended with status st
FaultOf(st) == IF st = "done" THEN "none" ELSE st

\* C1: determinism.  For a fixed height and fixed ledger contents every
\* independent run of the selection round gives the same schedule: the
\* outcome of a round run by scheduleFor, also one that follows earlier
\* rounds of the process, is the outcome of the same round run on a fresh
\* pool in a fresh process (chunk offset 0).
C1_Determinism ==
  (IsCall /\ last.ran) =>
     LET f == GetBlockCreator(CurrentPool, last.number, period, 0, 0)
     IN  /\ fault = FaultOf(f.status)
         /\ f.status = "done" => table = BlockCreator(f)

\* C2: with a non-empty ordered set, scheduleFor for a staked address never
\* fails and returns a difficulty within [DIF_MIN, DIF_MAX].  Stated for
\* ledgers like the example: the ordering is that of the entries and every
\* stake is at least the descaling divisor.
C2_ScheduleInRange ==
  (/\ IsCall
   /\ Len(sortedList) > 0
   /\ sortedList = SortedOf(storage)
   /\ \A a \in DOMAIN storage : Descale(storage[a].StkValue) > 0
   /\ last.addr \in DOMAIN storage) =>
     /\ fault = "none"
     /\ last.returned
     /\ last.score >= DIF_MIN
     /\ last.score <= DIF_MAX

\* sl is a permutation of exactly the addresses of stg with amount > 0, by
\* amount descending, then sinceHeight ascending, then address descending
IsOrderingOf(sl, stg) ==
  /\ Range(sl) = {a \in DOMAIN stg : stg[a].StkValue > 0}
  /\ Len(sl) = Cardinality(Range(sl))
  /\ \A i \in 1..Len(sl), j \in 1..Len(sl) :
       i < j =>
         LET x == stg[sl[i]]
             y == stg[sl[j]]
         IN  \/ x.StkValue > y.StkValue
             \/ x.StkValue = y.StkValue /\ x.StkBlockNumber < y.StkBlockNumber
             \/ x.StkValue = y.StkValue /\ x.StkBlockNumber = y.StkBlockNumber
                  /\ sl[i] > sl[j]

\* C3 as stated: in every reachable state a computed orderedAddresses is
\* the sorted permutation of the current entries.
C3_OrderedAlways ==
  Len(sortedList) > 0 => IsOrderingOf(sortedList, storage)

\* C3 amended: whenever orderedAddresses is computed (by Sort or scheduleFor
\* finding it empty) it is the sorted permutation of the entries of that
\* moment; once computed it stays as it is until invalidate; and Sort
\* called again with no call in between returns the same sequence.
C3_OrderedWhenComputed ==
  [][ /\ (Len(sortedList) = 0 /\ last'.op \in {"Sort", "GetDifficultyAndRank"})
           => IsOrderingOf(sortedList', storage')
      /\ (Len(sortedList) > 0 /\ last'.op # "ClearTable")
           => sortedList' = sortedList
      /\ (last.op = "Sort" /\ last'.op = "Sort") => sortedList' = sortedList
    ]_vars

C3_Witness ==
  /\ last.op = "Sort"
  /\ Len(sortedList) = 3
  /\ IsOrderingOf(sortedList, storage)
  /\ storage[sortedList[1]].StkValue = storage[sortedList[2]].StkValue
  /\ storage[sortedList[1]].StkBlockNumber = storage[sortedList[2]].StkBlockNumber

\* C4 as stated: once setStakeInfo(a, 0, _) has hit an existing staker a,
\* every later ordered() result excludes a and the next round's schedule
\* does not rank a.
C4_UnstakedExcludedAlways ==
  \A a \in hist.pending \cup hist.flushed :
    /\ last.op = "Sort" => a \notin Range(sortedList)
    /\ (IsCall /\ last.ran) => a \notin DOMAIN table

\* C4 amended: once invalidate() has been called after the event, a is in no
\* ordered() result and in no schedule (until it stakes again).
C4_UnstakedExcludedAfterInvalidate ==
  \A a \in hist.flushed :
    /\ a \notin Range(sortedList)
    /\ a \notin DOMAIN table

C4_Witness ==
  /\ hist.flushed # {}
  /\ IsCall /\ last.ran /\ last.returned
  /\ Cardinality(DOMAIN table) > 0

\* C5 as stated: once a scheduleFor call has run the selection, the next
\* scheduleFor call (no invalidate between) answers from the cache.
C5_CachedAfterAnyRound ==
  [][ (IsCall /\ last.ran /\ last'.op = "GetDifficultyAndRank")
        => (~last'.ran /\ table' = table /\ ~last'.reordered) ]_vars

\* C5 amended: once a round has produced a non-empty schedule, every
\* scheduleFor call up to the next invalidate answers from the cache (no
\* round is run, the cache is unchanged, wasRecomputed is false);
\* wasRecomputed is true only for a call that ran the round and filled the
\* cache.
C5_CachedAfterNonEmptyRound ==
  [][ /\ (Cardinality(DOMAIN table) > 0 /\ last'.op = "GetDifficultyAndRank")
           => (~last'.ran /\ table' = table /\ ~last'.reordered /\ last'.returned)
      /\ (Cardinality(DOMAIN table) > 0 /\ last'.op # "ClearTable") => table' = table
      /\ (last'.op = "GetDifficultyAndRank" /\ last'.reordered)
           => (last'.ran /\ Cardinality(DOMAIN table) = 0 /\ Cardinality(DOMAIN table') > 0)
    ]_vars

C5_Witness ==
  /\ IsCall /\ ~last.ran /\ ~last.reordered /\ last.returned
  /\ last.score >= DIF_MIN
  /\ hist.number # last.number

\* C6 as stated: the slot scheduleFor(a, h) returns comes from a schedule
\* computed for the height h.
C6_SlotOfSameHeight ==
  (IsCall /\ last.returned /\ Cardinality(DOMAIN table) > 0) => hist.number = last.number

\* C6 amended: a scheduleFor(a, h) call that rebuilds the cache answers from
\* the schedule the round computes for h (seed and advantage of h); a call
\* answered from the cache returns the cached slot whatever h is.
C6_SlotOfRebuildHeight ==
  /\ (IsCall /\ last.reordered) =>
        LET r == GetBlockCreator(CurrentPool, last.number, period, hist.next0, 0)
        IN  /\ r.status = "done"
            /\ table = BlockCreator(r)
  /\ (IsCall /\ last.returned /\ Cardinality(DOMAIN table) > 0) =>
        IF last.addr \in DOMAIN table
          THEN last.score = table[last.addr].Score /\ last.rank = table[last.addr].Rank
          ELSE last.score = 0 /\ last.rank = -1

C6_Witness ==
  /\ IsCall /\ last.reordered
  /\ last.number = 1200000
  /\ Cardinality(DOMAIN table) >= 2

\* C7 as stated: scheduleFor on a ledger with zero staked addresses returns
\* exactly (1234, 1, false).
C7_EmptyLedgerDefault ==
  (IsCall /\ last.returned /\ DOMAIN storage = {}) =>
     /\ last.score = defaultDifficulty
     /\ last.rank = defaultRank
     /\ last.reordered = FALSE

\* C7 amended: scheduleFor on a ledger with zero staked addresses whose
\* orderedAddresses is empty (never computed, or invalidated since the
\* stakers left) returns exactly (1234, 1, false) as a normal result.
C7_EmptyPoolDefault ==
  (IsCall /\ DOMAIN storage = {} /\ Len(sortedList) = 0) =>
     /\ fault = "none"
     /\ last.returned
     /\ last.score = defaultDifficulty
     /\ last.rank = defaultRank
     /\ last.reordered = FALSE
     /\ Cardinality(DOMAIN table) = 0

C7_Witness ==
  /\ IsCall /\ DOMAIN storage = {} /\ Len(sortedList) = 0
  /\ last.score = defaultDifficulty
  /\ hist.flushed # {}

\* C8: conservation.  In one round every address that is assigned is a
\* candidate of the input pool, and none is assigned more than once.
C8_Conservation ==
  /\ \A i \in 1..Len(rs.order) :
       \E k \in 1..Len(rs.sel) : rs.sel[k].address = rs.order[i].address
  /\ \A i \in 1..Len(rs.order), j \in 1..Len(rs.order) :
       i # j => rs.order[i].address # rs.order[j].address
  /\ DOMAIN rs.bc = {rs.order[i].address : i \in 1..Len(rs.order)}

C8_Witness ==
  /\ rs.status = "done"
  /\ Len(rs.order) > ChunkSize
  /\ Len(rs.order) = Len(rs.sel)

\* C9: difficulty monotonicity.  Within one round the assigned difficulties
\* are non-increasing in assignment order, the first is DIF_MAX and each is
\* at least DIF_MIN.
C9_DifficultyMonotone ==
  /\ Len(rs.order) > 0 => rs.order[1].difficulty = DIF_MAX
  /\ \A i \in 1..Len(rs.order) :
       /\ rs.order[i].difficulty >= DIF_MIN
       /\ rs.bc[rs.order[i].address] = rs.order[i].difficulty
       /\ i > 1 => rs.order[i - 1].difficulty >= rs.order[i].difficulty

C9_Witness ==
  /\ rs.status = "done"
  /\ Len(rs.order) > ChunkSize
  /\ rs.order[Len(rs.order)].difficulty < rs.order[1].difficulty

SameEntry(stg1, stg2, x) ==
  /\ (x \in DOMAIN stg1) <=> (x \in DOMAIN stg2)
  /\ x \in DOMAIN stg1 => stg1[x] = stg2[x]

\* C11: no entry with amount <= 0.  Starting from the empty ledger, every
\* entry has an amount > 0 and is stored under its own address; setStakeInfo
\* returns normally and changes the entry of one address only, which it
\* removes or replaces by an entry of that address with amount > 0; remove
\* returns normally and takes away at most one entry.
C11_NoZeroEntry ==
  [][ /\ \A a \in DOMAIN storage' :
           storage'[a].StkValue > 0 /\ storage'[a].StkAddress = a
      /\ last'.op = "SetInfo" =>
           /\ fault' = "none" /\ last'.returned
           /\ \E a \in Addrs : \A x \in Addrs \ {a} : SameEntry(storage, storage', x)
      /\ last'.op = "Delete" =>
           /\ fault' = "none" /\ last'.returned
           /\ DOMAIN storage' \subseteq DOMAIN storage
           /\ Cardinality(DOMAIN storage \ DOMAIN storage') <= 1
           /\ \A x \in DOMAIN storage' : storage'[x] = storage[x]
    ]_vars

C11_Witness ==
  /\ last.op = "SetInfo"
  /\ hist.pending # {}
  /\ Cardinality(DOMAIN storage) = 2
  /\ \A a \in hist.pending : a \notin DOMAIN storage

\* C12: termination.  A selection round, once started, completes for every
\* pool and every sequence of draws: the sampling loop reaches its exit and
\* neither loops forever nor stops on a fault.
C12_Termination == (rs.status = "run") ~> (rs.status = "done")

\* C13: invalidate() leaves scheduleCache empty and the entries as they
\* are; the first scheduleFor after it, on a ledger with stakers (each of a
\* stake of at least the descaling divisor), returns, rebuilds the ordering
\* and a schedule of the entries of that moment, and reports wasRecomputed.
C13_InvalidateRebuilds ==
  [][ /\ last'.op = "ClearTable" =>
           (Cardinality(DOMAIN table') = 0 /\ storage' = storage)
      /\ (/\ last.op = "ClearTable"
          /\ last'.op = "GetDifficultyAndRank"
          /\ DOMAIN storage # {}
          /\ \A a \in DOMAIN storage : Descale(storage[a].StkValue) > 0) =>
           /\ fault' = "none"
           /\ last'.returned
           /\ last'.reordered
           /\ IsOrderingOf(sortedList', storage)
           /\ Cardinality(DOMAIN table') > 0
           /\ DOMAIN table' \subseteq DOMAIN storage
    ]_vars

\* C14: unranked sentinel.  With a non-empty schedule cache, scheduleFor for
\* an address the cache lacks returns rank -1 (difficulty 0, wasRecomputed
\* false) as a normal result and leaves the cache and the ordering as they
\* are.
C14_UnrankedSentinel ==
  [][ (/\ Cardinality(DOMAIN table) > 0
       /\ last'.op = "GetDifficultyAndRank"
       /\ last'.addr \notin DOMAIN table) =>
        /\ fault' = "none"
        /\ last'.returned
        /\ last'.rank = -1
        /\ last'.score = 0
        /\ ~last'.reordered
        /\ ~last'.ran
        /\ table' = table
        /\ sortedList' = sortedList
    ]_vars

\* a candidate of the round that the round did not select is asked for
C14_Witness ==
  /\ IsCall /\ last.returned /\ ~last.ran
  /\ last.rank = -1
  /\ Cardinality(DOMAIN table) > 0
  /\ last.addr \in DOMAIN storage
  /\ last.addr \in Range(sortedList)
  /\ sortedList = SortedOf(storage)

\* C15: at every iteration of the sampling loop total is the weight of the
\* candidates still in the current chunk (the chunk's TotalStakeBalance),
\* so that every draw of [0, total) selects a candidate.
C15_TotalIsRemainingWeight ==
  rs.status = "run" =>
    LET a == Advance(rs)
    IN  a.status = "run" =>
          /\ a.total = TotalStakeBalance(a.cp, a.number, a.period)
          /\ \A value \in 0..(a.total - 1) : selector(a.cp, a.total, value) # 0

\* the chunk (0-based) of the pool the address a is in
ChunkOf(sel, a) ==
  ((CHOOSE k \in 1..Len(sel) : sel[k].address = a) - 1) \div ChunkSize

\* C16: batching.  A round starts at the first candidate, takes the pool in
\* chunks of ChunkSize in the pool's order, assigns every candidate it ranks
\* from one chunk before any of the next chunk, and goes on until the whole
\* pool has been consulted, without a fault, for every pool size.
C16_Batching ==
  /\ rs.status # "panic"
  /\ rs.status \in {"run", "done"} => rs.next0 = 0
  /\ \A i \in 1..Len(rs.order), j \in 1..Len(rs.order) :
       i < j => ChunkOf(rs.sel, rs.order[i].address) <= ChunkOf(rs.sel, rs.order[j].address)
  /\ rs.status = "done" => Len(rs.sel) <= rs.NEXT + ChunkSize

\* targetHeight - sinceHeight >= 1.2 * (30 / epochPeriodSeconds) * 10^6
Saturated(block, number, per) == (number - block) * per >= 36000000

\* C17 as stated: for every positive period and every candidate the
\* advantage is at most 1 and exactly 1 from the saturation point on, the
\* multiplier lies in [10, 20] and the weighted stake between stake and
\* 2 * stake.
C17_AdvantageSaturates ==
  /\ calc.op = "GetAdvantage" =>
       /\ calc.adv.num <= calc.adv.den
       /\ Saturated(calc.block, calc.number, calc.period) => calc.adv.num = calc.adv.den
  /\ calc.op = "TotalStakeBalance" =>
       /\ calc.mult >= 10 /\ calc.mult <= 20
       /\ calc.sum >= 10 * calc.stake /\ calc.sum <= 20 * calc.stake

\* C17 amended: the advantage is at most 1 and exactly 1 from the
\* saturation point on; for a candidate staked at or below the target
\* height it is at least 0, the multiplier lies in [10, 20] and the weighted
\* stake between stake and 2 * stake; for a candidate staked above the
\* target height the advantage is negative, the multiplier at most 10 and
\* the weighted stake at most the stake.
C17_AdvantageSaturatesFromStakeHeight ==
  /\ calc.op = "GetAdvantage" =>
       /\ calc.adv.num <= calc.adv.den
       /\ Saturated(calc.block, calc.number, calc.period) => calc.adv.num = calc.adv.den
       /\ calc.block <= calc.number => calc.adv.num >= 0
       /\ calc.block > calc.number => calc.adv.num < 0
  /\ calc.op = "TotalStakeBalance" =>
       /\ calc.block <= calc.number =>
            /\ calc.mult >= 10 /\ calc.mult <= 20
            /\ calc.sum >= 10 * calc.stake /\ calc.sum <= 20 * calc.stake
            /\ Saturated(calc.block, calc.number, calc.period) => calc.mult = 20
       /\ calc.block > calc.number =>
            /\ calc.mult <= 10
            /\ calc.sum <= 10 * calc.stake

\* a stake far below the target height, at a period other than 30
C17_Witness ==
  /\ calc.op = "TotalStakeBalance"
  /\ calc.period = 7
  /\ Saturated(calc.block, calc.number, calc.period)
  /\ ~Saturated(calc.block + 1, calc.number, calc.period)
  /\ calc.mult = 20
  /\ calc.sum = 2 * 10 * calc.stake

\* C18: the seed of a round is a function of the height alone, computed
\* from a hash input that differs for any two different heights.
C18_SeedOfWholeHeight ==
  calc.op = "GetSeed" =>
    /\ calc.number = calc.number2 => calc.seed = calc.seed2
    /\ calc.number # calc.number2 => calc.bytes # calc.bytes2

\* the round r has come to its end, one way or another
Ended(r) == r.status \in {"done", "panic"}

\* the round of r run alone, in a process of its own
Alone(r) == GetBlockCreator(r.sel, r.number, r.period, 0, 0)

\* C19: no cross-round interference.  Two rounds on pools of their own,
\* both entered before either has moved the chunk offset and interleaved
\* iteration by iteration, each end with the schedule the round gives when
\* it is run alone.
C19_NoInterference ==
  (rs.status # "idle" /\ rs2.status # "idle" /\ rs.next0 = 0 /\ rs2.next0 = 0) =>
    /\ (Ended(rs) /\ Alone(rs).status = "done") =>
         (rs.status = "done" /\ rs.bc = Alone(rs).bc)
    /\ (Ended(rs2) /\ Alone(rs2).status = "done") =>
         (rs2.status = "done" /\ rs2.bc = Alone(rs2).bc)

\* C20 as stated: a ledger obtained by decoding has an empty scheduleCache,
\* and its first scheduleFor (on a ledger with stakers) runs the selection.
C20_DecodedCacheEmpty ==
  [][ /\ last'.op = "Decode" => Cardinality(DOMAIN table') = 0
      /\ (last.op = "Decode" /\ last'.op = "GetDifficultyAndRank"
            /\ DOMAIN storage # {}) => last'.ran
    ]_vars

\* C20 amended: decoding restores entries, ordering and scheduleCache as
\* they were persisted; the first scheduleFor on the decoded ledger answers
\* from the restored cache when that is non-empty, whatever the height, and
\* runs the selection for the requested height when the restored cache and
\* ordering are empty and the ledger has stakers.
C20_DecodedCacheAsPersisted ==
  [][ /\ last'.op = "Decode" =>
           (table' = table /\ sortedList' = sortedList /\ storage' = storage)
      /\ (last.op = "Decode" /\ last'.op = "GetDifficultyAndRank"
            /\ Cardinality(DOMAIN table) > 0) =>
           (~last'.ran /\ ~last'.reordered /\ last'.returned /\ table' = table)
      /\ (last.op = "Decode" /\ last'.op = "GetDifficultyAndRank"
            /\ Cardinality(DOMAIN table) = 0 /\ Len(sortedList) = 0
            /\ DOMAIN storage # {}) =>
           (last'.ran /\ hist'.number = last'.number)
    ]_vars

\* a decoded ledger whose cache holds the schedule of height 600000 and
\* whose entries have changed since
C20_Witness ==
  /\ last.op = "Decode"
  /\ Cardinality(DOMAIN table) > 0
  /\ hist.number = 600000
  /\ DOMAIN table # DOMAIN storage

\* the calls made on the original and on the copy
OriginalOps == {"SetInfo", "Delete", "Sort", "ClearTable", "GetDifficultyAndRank"}

CopyOps == {"c.SetInfo", "c.Delete", "c.Sort", "c.ClearTable", "c.GetDifficultyAndRank"}

\* C21: Copy() yields an independent view.  After c = l.Copy(), a call of
\* setStakeInfo, remove, Sort, scheduleFor or invalidate on c leaves the
\* entries, orderedAddresses and scheduleCache of l as they are, and a call
\* on l leaves the orderedAddresses and scheduleCache of c as they are.
C21_CopyIndependent ==
  [][ /\ (twin.live /\ last'.op \in CopyOps) =>
           (storage' = storage /\ sortedList' = sortedList /\ table' = table)
      /\ (twin.live /\ last'.op \in OriginalOps) =>
           (twin'.sortedList = twin.sortedList /\ twin'.table = twin.table)
    ]_vars

====
